---- MODULE Spec2Model ----
(***************************************************************************)
(* Software rendering pipeline of Model3D: the frame loop of main, the     *)
(* four stages of render, the framebuffer's depth-tested write and the     *)
(* shading dispatch select_shader.                                         *)
(*                                                                         *)
(* Numbers.  The program computes in f32; the model computes in integers.  *)
(* World coordinates are integer world units, screen coordinates integer   *)
(* pixels, noise values and light intensities are tenths (NoiseOne = 1.0), *)
(* scales are halves (ScaleOne = 1.0).  The projection is reduced to its   *)
(* w component (the distance to the eye along the view axis), which is     *)
(* also the depth; the viewport maps WorldPerPixel world units to a pixel. *)
(***************************************************************************)
EXTENDS Integers, Sequences, FiniteSets, TLC

VARIABLES
    pc,             \* position of main / render
    time,           \* main: let mut time
    camera,         \* main: let mut camera
    uniforms,       \* main: let mut uniforms
    framebuffer,    \* main: let mut framebuffer
    vertex_arrays,  \* main: obj.get_vertex_array()
    order,          \* order[k]: the scene object drawn k-th in a frame
    draw,           \* number of the current draw within the frame (1-based)
    triangles,      \* render: let mut triangles
    fragments,      \* render: let mut fragments (the part not yet consumed)
    displayed,      \* the buffers handed to the window so far
    events,         \* history: this frame's events, in order
    writes,         \* history: per cell, the point() calls of this frame
    shade           \* inputs and result of one shader call

vars == <<pc, time, camera, uniforms, framebuffer, vertex_arrays, order, draw,
          triangles, fragments, displayed, events, writes, shade>>

(***************************************************************************)
(* Bounds of the model.                                                    *)
(***************************************************************************)
MaxFrames == 2      \* frames the loop runs before the window closes
MaxVerts == 7       \* longest vertex array loaded from the mesh file
MaxWrites == 2      \* point() calls in the stand-alone framebuffer runs
MaxIndex == 10      \* largest body identifier handed to select_shader

(***************************************************************************)
(* Scales of the integer arithmetic.                                       *)
(***************************************************************************)
NoiseOne == 10
ScaleOne == 2
WorldPerPixel == 8

Min2(a, b) == IF a < b THEN a ELSE b
Max2(a, b) == IF a > b THEN a ELSE b
Abs(a) == IF a < 0 THEN -a ELSE a
Clamp(v, lo, hi) == Max2(lo, Min2(hi, v))
\* f32 -> integer conversions truncate toward zero
Trunc(num, den) == IF num >= 0 THEN num \div den ELSE -((-num) \div den)

Vec3(x, y, z) == [x |-> x, y |-> y, z |-> z]
VAdd(a, b) == Vec3(a.x + b.x, a.y + b.y, a.z + b.z)
VSub(a, b) == Vec3(a.x - b.x, a.y - b.y, a.z - b.z)

(***************************************************************************)
(* Color (color.rs): three bytes, packed as 0xRRGGBB.                      *)
(***************************************************************************)
Color(r, g, b) == [r |-> Clamp(r, 0, 255), g |-> Clamp(g, 0, 255), b |-> Clamp(b, 0, 255)]
to_hex(c) == c.r * 65536 + c.g * 256 + c.b
from_hex(h) == Color((h \div 65536) % 256, (h \div 256) % 256, h % 256)
\* from_float takes tenths here
from_float(r, g, b) == Color(Trunc(r * 255, NoiseOne), Trunc(g * 255, NoiseOne), Trunc(b * 255, NoiseOne))
\* Color * f32, the factor in tenths
ColorMul(c, f) == Color(Trunc(c.r * f, NoiseOne), Trunc(c.g * f, NoiseOne), Trunc(c.b * f, NoiseOne))
ColorAdd(a, b) == Color(a.r + b.r, a.g + b.g, a.b + b.b)
\* a.lerp(&b, t), t in tenths; the result is clamped to bytes
ColorLerp(a, b, t) ==
    Color(a.r + Trunc((b.r - a.r) * t, NoiseOne),
          a.g + Trunc((b.g - a.g) * t, NoiseOne),
          a.b + Trunc((b.b - a.b) * t, NoiseOne))
Black == Color(0, 0, 0)
White == Color(255, 255, 255)

(***************************************************************************)
(* Framebuffer (framebuffer.rs): row-major colour and depth buffers.       *)
(***************************************************************************)
Far == 1000000          \* the depth of a cleared cell
NaN == -1000000         \* a depth that is not a number
IsValidDepth(d) == d # NaN

Cells(fb) == 0 .. (fb.width * fb.height - 1)
CellOf(fb, x, y) == y * fb.width + x

FramebufferNew(w, h) ==
    [width |-> w, height |-> h,
     buffer |-> [c \in 0 .. (w * h - 1) |-> 0],
     zbuffer |-> [c \in 0 .. (w * h - 1) |-> Far],
     background_color |-> 0, current_color |-> 16777215]

clear(fb) ==
    [fb EXCEPT !.buffer = [c \in Cells(fb) |-> fb.background_color],
               !.zbuffer = [c \in Cells(fb) |-> Far]]

set_background_color(fb, c) == [fb EXCEPT !.background_color = c]
set_current_color(fb, c) == [fb EXCEPT !.current_color = c]

\* the depth test: strictly nearer than what the cell holds
DepthPasses(depth, stored) == depth < stored

point(fb, x, y, depth) ==
    IF ~(x >= 0 /\ x < fb.width /\ y >= 0 /\ y < fb.height) THEN fb
    ELSE IF ~IsValidDepth(depth) THEN fb
    ELSE IF DepthPasses(depth, fb.zbuffer[CellOf(fb, x, y)])
         THEN [fb EXCEPT !.buffer[CellOf(fb, x, y)] = fb.current_color,
                         !.zbuffer[CellOf(fb, x, y)] = depth]
         ELSE fb

(***************************************************************************)
(* Noise capability (FastNoiseLite): a fixed pure function of the          *)
(* coordinate, in tenths, within [-NoiseOne, NoiseOne].                    *)
(***************************************************************************)
get_noise_3d(noise, x, y, z) == ((x * 3 + y * 5 + z * 7 + noise) % (2 * NoiseOne + 1)) - NoiseOne
get_noise_2d(noise, x, y) == ((x * 3 + y * 5 + noise) % (2 * NoiseOne + 1)) - NoiseOne
create_noise == 4

(***************************************************************************)
(* Vertex (vertex.rs) and the mesh handed over by the loader.              *)
(***************************************************************************)
Vertex(position, normal, tex_coords, color) ==
    [position |-> position, normal |-> normal, tex_coords |-> tex_coords, color |-> color,
     transformed_position |-> Vec3(0, 0, 0), transformed_normal |-> normal]

Palette == <<Color(255, 0, 0), Color(0, 255, 0), Color(0, 0, 255), Color(255, 255, 0)>>

\* the k-th vertex of the mesh file: triangles of side 16, alternately
\* mirrored, each 8 units nearer than the one before
VertexAt(k) ==
    LET t == (k - 1) \div 3
        j == (k - 1) % 3
        cx == IF j = 1 THEN 16 ELSE 0
        cy == IF j = 2 THEN 16 ELSE 0
        px == IF t % 2 = 0 THEN cx ELSE 16 - cx
        py == IF t % 2 = 0 THEN cy ELSE 16 - cy
    IN Vertex(Vec3(px, py, 8 * t),
              IF k % 5 = 0 THEN Vec3(0, 0, -4) ELSE Vec3(0, 0, 4),
              <<j, t>>,
              Palette[((k - 1) % 4) + 1])

Mesh(n) == [k \in 1 .. n |-> VertexAt(k)]

(***************************************************************************)
(* Uniforms and the matrices main builds for them.                         *)
(***************************************************************************)
create_model_matrix(translation, scale, rotation) ==
    [translation |-> translation, scale |-> scale]
create_view_matrix(eye, center, up) == [eye |-> eye, center |-> center]
create_viewport_matrix(w, h) == [width |-> w, height |-> h]

(***************************************************************************)
(* vertex_shader (shaders.rs).                                             *)
(***************************************************************************)
\* a shader that hands the displaced position on as the object-space one
OutputPositionDisplaced(vertex, displaced_position) == displaced_position

\* position: vertex.position -- the object-space position of the output
OutputPosition(vertex, displaced_position) == vertex.position

vertex_shader(vertex, u) ==
    LET zoom == 5
        displacement_amount ==
            get_noise_3d(u.noise, vertex.position.x * zoom, vertex.position.y * zoom,
                         vertex.position.z * zoom)
        \* position + normal * displacement_amount * 0.5
        displaced_position ==
            Vec3(vertex.position.x + Trunc(vertex.normal.x * displacement_amount, 2 * NoiseOne),
                 vertex.position.y + Trunc(vertex.normal.y * displacement_amount, 2 * NoiseOne),
                 vertex.position.z + Trunc(vertex.normal.z * displacement_amount, 2 * NoiseOne))
        m == u.model_matrix
        world == Vec3(Trunc(displaced_position.x * m.scale, ScaleOne) + m.translation.x,
                      Trunc(displaced_position.y * m.scale, ScaleOne) + m.translation.y,
                      Trunc(displaced_position.z * m.scale, ScaleOne) + m.translation.z)
        view == VSub(world, u.view_matrix.center)
        w == u.view_matrix.eye.z - world.z
        screen_position ==
            IF w = 0 THEN Vec3(NaN, NaN, NaN)
            ELSE Vec3(view.x \div WorldPerPixel + u.viewport_matrix.width \div 2,
                      view.y \div WorldPerPixel + u.viewport_matrix.height \div 2,
                      w)
        \* inverse transpose of the model matrix's 3x3 block, identity if singular
        transformed_normal ==
            IF m.scale = 0 THEN vertex.normal
            ELSE Vec3(Trunc(vertex.normal.x * ScaleOne, m.scale),
                      Trunc(vertex.normal.y * ScaleOne, m.scale),
                      Trunc(vertex.normal.z * ScaleOne, m.scale))
    IN [position |-> OutputPosition(vertex, displaced_position),
        normal |-> vertex.normal,
        tex_coords |-> vertex.tex_coords,
        color |-> vertex.color,
        transformed_position |-> screen_position,
        transformed_normal |-> transformed_normal]

(***************************************************************************)
(* triangle (triangle.rs): bounding box, barycentric inside test,          *)
(* interpolation, diffuse light intensity.                                 *)
(***************************************************************************)
edge_function(a, b, c) == (c.x - a.x) * (b.y - a.y) - (c.y - a.y) * (b.x - a.x)

ISqrt(n) == CHOOSE r \in 0 .. n : r * r <= n /\ (r + 1) * (r + 1) > n

\* max(0, dot(normalize(normal), light_dir)), light_dir = (0, 0, 1), in tenths
LightIntensity(normal) ==
    LET len == ISqrt(normal.x * normal.x + normal.y * normal.y + normal.z * normal.z)
    IN IF len = 0 \/ normal.z <= 0 THEN 0 ELSE Clamp(Trunc(normal.z * NoiseOne, len), 0, NoiseOne)

IsFinitePosition(p) == p.x # NaN /\ p.y # NaN /\ p.z # NaN

triangle(v1, v2, v3) ==
    LET a == v1.transformed_position
        b == v2.transformed_position
        c == v3.transformed_position
    IN IF ~(IsFinitePosition(a) /\ IsFinitePosition(b) /\ IsFinitePosition(c)) THEN << >>
       ELSE
       LET area == edge_function(a, b, c)
           min_x == Min2(a.x, Min2(b.x, c.x))
           max_x == Max2(a.x, Max2(b.x, c.x))
           min_y == Min2(a.y, Min2(b.y, c.y))
           max_y == Max2(a.y, Max2(b.y, c.y))
           bw == max_x - min_x + 1
           bh == max_y - min_y + 1
           PX(k) == min_x + ((k - 1) % bw)
           PY(k) == min_y + ((k - 1) \div bw)
           P(k) == [x |-> PX(k), y |-> PY(k)]
           W1(k) == edge_function(b, c, P(k))
           W2(k) == edge_function(c, a, P(k))
           W3(k) == edge_function(a, b, P(k))
           Inside(k) == W1(k) * area >= 0 /\ W2(k) * area >= 0 /\ W3(k) * area >= 0
           Mix(k, p, q, r) ==
               Trunc(Abs(W1(k)) * p + Abs(W2(k)) * q + Abs(W3(k)) * r, Abs(area))
           MixVec(k, p, q, r) ==
               Vec3(Mix(k, p.x, q.x, r.x), Mix(k, p.y, q.y, r.y), Mix(k, p.z, q.z, r.z))
           Frag(k) ==
               LET normal == MixVec(k, v1.transformed_normal, v2.transformed_normal,
                                    v3.transformed_normal)
               IN [position |-> P(k),
                   color |-> Color(Mix(k, v1.color.r, v2.color.r, v3.color.r),
                                   Mix(k, v1.color.g, v2.color.g, v3.color.g),
                                   Mix(k, v1.color.b, v2.color.b, v3.color.b)),
                   depth |-> Mix(k, a.z, b.z, c.z),
                   normal |-> normal,
                   intensity |-> LightIntensity(normal),
                   vertex_position |-> MixVec(k, v1.position, v2.position, v3.position)]
       IN IF area = 0 THEN << >>
          ELSE [i \in 1 .. Cardinality({k \in 1 .. bw * bh : Inside(k)}) |->
                   Frag(CHOOSE k \in 1 .. bw * bh :
                          Inside(k) /\ Cardinality({l \in 1 .. k : Inside(l)}) = i)]

\* fragment_shader of the scene driver: the base colour under the light
fragment_shader(fragment, u) == ColorMul(fragment.color, fragment.intensity)

(***************************************************************************)
(* The body shaders and their dispatch (shaders.rs).  Thresholds and       *)
(* blend factors are tenths.                                               *)
(***************************************************************************)
sun_shader == from_float(NoiseOne, 9, 5)

ring_shader(fragment) ==
    LET distance_from_center ==
            ISqrt(fragment.vertex_position.x * fragment.vertex_position.x
                  + fragment.vertex_position.z * fragment.vertex_position.z)
        num_bands == 4
        \* band_width = 1.0 / 4: floor(distance / band_width) = 4 * distance
        band_index == distance_from_center * num_bands
        band_colors == <<from_hex(11584734), from_hex(7372944), from_hex(11119017),
                         from_hex(16119260)>>
        color == band_colors[((Abs(band_index) % num_bands) % Len(band_colors)) + 1]
        \* (distance % band_width) / band_width of a whole distance is 0
        edge_distance == 0
        smooth_edge == Clamp(NoiseOne - edge_distance, 0, NoiseOne)
    IN ColorMul(color, smooth_edge)

earth_shader(fragment, u) ==
    LET land_color == Color(34, 139, 34)
        ocean_color == Color(30, 144, 255)
        snow_color == Color(255, 250, 250)
        cloud_color == Color(255, 255, 255)
        p == fragment.vertex_position
        zoom == 15
        noise_value == get_noise_3d(u.noise, p.x * zoom, p.y * zoom, p.z * zoom)
        base_color ==
            IF noise_value < -3
            THEN ColorLerp(ocean_color, Color(25, 105, 210), Trunc((noise_value + 3) * NoiseOne, 3))
            ELSE IF noise_value > 7
                 THEN ColorLerp(land_color, snow_color, Trunc((noise_value - 7) * NoiseOne, 3))
                 ELSE ColorLerp(ocean_color, land_color, noise_value + 3)
        cloud_zoom1 == 10
        \* noise * 0.3 and noise * 0.4 stay below one coordinate unit
        displacement_x1 == Trunc(get_noise_2d(u.noise, p.x * cloud_zoom1, p.y * cloud_zoom1) * 3, 10 * NoiseOne)
        displacement_z1 == Trunc(get_noise_2d(u.noise, p.z * cloud_zoom1, p.y * cloud_zoom1) * 3, 10 * NoiseOne)
        cloud_noise_value1 ==
            get_noise_3d(u.noise, p.x * cloud_zoom1 + displacement_x1, p.y * cloud_zoom1,
                         p.z * cloud_zoom1 + displacement_z1)
        cloud_opacity1 == Max2(Min2(Trunc(cloud_noise_value1 * 5, NoiseOne) + 5, NoiseOne), 0)
        cloud_zoom2 == 8
        displacement_x2 == Trunc(get_noise_2d(u.noise, p.x * cloud_zoom2, p.y * cloud_zoom2) * 4, 10 * NoiseOne)
        displacement_z2 == Trunc(get_noise_2d(u.noise, p.z * cloud_zoom2, p.y * cloud_zoom2) * 4, 10 * NoiseOne)
        cloud_noise_value2 ==
            get_noise_3d(u.noise, p.x * cloud_zoom2 + displacement_x2, p.y * cloud_zoom2,
                         p.z * cloud_zoom2 + displacement_z2)
        cloud_opacity2 == Max2(Min2(Trunc(cloud_noise_value2 * 5, NoiseOne) + 5, NoiseOne), 0)
        combined_clouds ==
            ColorAdd(ColorMul(cloud_color, cloud_opacity1), ColorMul(cloud_color, cloud_opacity2))
    IN ColorLerp(base_color, combined_clouds, 5)

mars_shader(fragment, u) ==
    LET base_color == Color(139, 69, 19)
        crater_color == Color(105, 54, 30)
        rocky_color == Color(169, 86, 30)
        p == fragment.vertex_position
        zoom == 20
        noise_value == get_noise_2d(u.noise, p.x * zoom, p.y * zoom)
        base_layer == ColorLerp(base_color, rocky_color, Trunc(noise_value * 5, NoiseOne) + 5)
        crater_zoom == 8
        crater_noise_value == get_noise_2d(u.noise, p.x * crater_zoom, p.y * crater_zoom)
    IN IF crater_noise_value < -3
       THEN ColorLerp(base_layer, crater_color, Trunc((-crater_noise_value - 3) * NoiseOne, 7))
       ELSE base_layer

jupiter_shader(fragment, u) == Color(255, 200, 0)

saturn_shader(fragment, u) ==
    LET planet_color == Color(255, 225, 180)
        ring_color == Color(220, 220, 220)
        p == fragment.vertex_position
        distance_from_center == ISqrt(p.x * p.x + p.y * p.y)
        ring_width == 5
        ring_threshold == 10
        in_rings == distance_from_center > ring_threshold /\ (distance_from_center % ring_width) < 1
    IN IF in_rings THEN ring_color ELSE planet_color

mercury_shader(fragment, u) ==
    LET base_color == Color(169, 169, 169)
        crater_color == Color(105, 105, 105)
        zoom == 20
        noise_value ==
            get_noise_2d(u.noise, fragment.vertex_position.x * zoom, fragment.vertex_position.y * zoom)
        is_crater == noise_value < -2
        color == IF is_crater THEN crater_color ELSE base_color
    IN ColorMul(color, fragment.intensity)

venus_shader(fragment, u) ==
    LET base_color == Color(218, 165, 32)
        cloud_color == Color(255, 228, 181)
        zoom == 8
        noise_value ==
            get_noise_2d(u.noise, fragment.vertex_position.x * zoom, fragment.vertex_position.y * zoom)
    IN ColorLerp(base_color, cloud_color, Abs(noise_value))

uranus_shader(fragment, u) ==
    LET base_color == Color(173, 216, 230)
        highlight_color == Color(224, 255, 255)
        zoom == 5
        noise_value ==
            get_noise_2d(u.noise, fragment.vertex_position.x * zoom, fragment.vertex_position.y * zoom)
    IN ColorLerp(base_color, highlight_color, noise_value)

\* the arm of the dispatch for an index that names no body
DefaultShaderRings(fragment, u) == ring_shader(fragment)
DefaultShader(fragment, u) == sun_shader

select_shader(index, fragment, u) ==
    CASE index = 0 -> sun_shader
      [] index = 1 -> mercury_shader(fragment, u)
      [] index = 2 -> venus_shader(fragment, u)
      [] index = 3 -> earth_shader(fragment, u)
      [] index = 4 -> mars_shader(fragment, u)
      [] index = 5 -> jupiter_shader(fragment, u)
      [] index = 6 -> saturn_shader(fragment, u)
      [] index = 7 -> uranus_shader(fragment, u)
      [] index = 8 -> ring_shader(fragment)
      [] OTHER -> DefaultShader(fragment, u)

(***************************************************************************)
(* render (main.rs), stage by stage.                                       *)
(***************************************************************************)
VertexStage(vertex_array, u) ==
    [k \in 1 .. Len(vertex_array) |-> vertex_shader(vertex_array[k], u)]

\* for i in (0..len).step_by(3) { if i + 2 < len { push [i, i+1, i+2] } }
AssemblyGuardDropsLast(i, len) == i + 3 < len
AssemblyGuard(i, len) == i + 2 < len
AssemblyStride == 3

RECURSIVE AssembleFrom(_, _)
AssembleFrom(transformed_vertices, i) ==
    IF i >= Len(transformed_vertices) THEN << >>
    ELSE (IF AssemblyGuard(i, Len(transformed_vertices))
          THEN << <<transformed_vertices[i + 1], transformed_vertices[i + 2],
                    transformed_vertices[i + 3]>> >>
          ELSE << >>)
         \o AssembleFrom(transformed_vertices, i + AssemblyStride)

PrimitiveAssembly(transformed_vertices) == AssembleFrom(transformed_vertices, 0)

\* triangle(&tri[0], &tri[1], &tri[2])
RasterizeTriangleRepeatsVertex(tri) == triangle(tri[1], tri[2], tri[2])
RasterizeTriangle(tri) == triangle(tri[1], tri[2], tri[3])

RECURSIVE RasterizeFrom(_, _)
RasterizeFrom(tris, k) ==
    IF k > Len(tris) THEN << >>
    ELSE RasterizeTriangle(tris[k]) \o RasterizeFrom(tris, k + 1)

Rasterize(tris) == RasterizeFrom(tris, 1)

\* f32 as usize: truncates toward zero and saturates, so a negative
\* coordinate becomes 0
AsUsize(v) == IF v < 0 THEN 0 ELSE v

InFramebuffer(fb, x, y) == x < fb.width /\ y < fb.height

\* framebuffer.set_current_color(color); framebuffer.point(x, y, depth)
FragmentWriteStaleColor(fb, color, x, y, depth) == set_current_color(point(fb, x, y, depth), color)
FragmentWrite(fb, color, x, y, depth) == point(set_current_color(fb, color), x, y, depth)

\* one iteration of the fragment processing loop
ProcessFragment(fb, fragment, u) ==
    LET x == AsUsize(fragment.position.x)
        y == AsUsize(fragment.position.y)
    IN IF InFramebuffer(fb, x, y)
       THEN FragmentWrite(fb, to_hex(fragment_shader(fragment, u)), x, y, fragment.depth)
       ELSE fb

\* (fb.width is never negative: the test makes each step's framebuffer be
\* computed before the next step starts)
RECURSIVE ProcessAll(_, _, _)
ProcessAll(fb, frags, u) ==
    IF frags = << >> \/ fb.width < 0 THEN fb
    ELSE ProcessAll(ProcessFragment(fb, Head(frags), u), Tail(frags), u)

render(fb, u, vertex_array) ==
    ProcessAll(fb, Rasterize(PrimitiveAssembly(VertexStage(vertex_array, u))), u)

(***************************************************************************)
(* The scene main draws each frame: the central body, six orbiting bodies  *)
(* and, right after the third of them, the small body.  Objects are        *)
(* numbered in the order main draws them.                                  *)
(***************************************************************************)
radii == <<12, 14, 16, 18, 20, 28>>
NumObjects == Len(radii) + 2
Central == 1
Small == 5
OrbitIndex(o) == IF o < Small THEN o - 2 ELSE o - 3

\* cos and sin of i * 2 PI / 6, in halves and in thousandths
Cos2 == <<2, 1, -1, -2, -1, 1>>
Sin1000 == <<0, 866, 866, 0, -866, -866>>
OrbitTranslation(i) ==
    Vec3(Trunc(radii[i + 1] * Cos2[i + 1], 2), 0, Trunc(radii[i + 1] * Sin1000[i + 1], 1000))

CentralScale == 3
OrbitScale == 2
SmallScale == 1

ObjectModelMatrix(o) ==
    IF o = Central THEN create_model_matrix(Vec3(0, 0, 0), CentralScale, Vec3(0, 0, 0))
    ELSE IF o = Small
         THEN create_model_matrix(VAdd(OrbitTranslation(2), Vec3(20, 5, 0)), SmallScale,
                                  Vec3(0, 0, 0))
         ELSE create_model_matrix(OrbitTranslation(OrbitIndex(o)), OrbitScale, Vec3(0, 0, 0))

ObjectColor(o) ==
    IF o = Central THEN 16768477 ELSE IF o = Small THEN 16776960 ELSE 16755370

BackgroundColor == 3355477

\* what main does to the framebuffer right before render(object o)
BeforeDrawClears(fb, o) == set_current_color(clear(fb), ObjectColor(o))
BeforeDraw(fb, o) == set_current_color(fb, ObjectColor(o))

\* the uniforms as main leaves them right before render(object o)
SetupUniforms(u, o, cam, t) ==
    IF o = Small THEN [u EXCEPT !.model_matrix = ObjectModelMatrix(o)]
    ELSE [u EXCEPT !.model_matrix = ObjectModelMatrix(o),
                   !.view_matrix = create_view_matrix(cam.eye, cam.center, cam.up),
                   !.time = t]

(***************************************************************************)
(* Camera and handle_input: the pan keys.                                  *)
(***************************************************************************)
Keys == {"none", "A", "D"}
move_center(cam, movement) ==
    [cam EXCEPT !.eye = VAdd(cam.eye, movement), !.center = VAdd(cam.center, movement)]
handle_input(cam, key) ==
    LET movement == Vec3((IF key = "D" THEN 1 ELSE 0) - (IF key = "A" THEN 1 ELSE 0), 0, 0)
    IN IF movement.x # 0 THEN move_center(cam, movement) ELSE cam

(***************************************************************************)
(* main.                                                                   *)
(***************************************************************************)
FbWidth == 4
FbHeight == 3

NextTimeTwice(t) == t + 2
NextTime(t) == t + 1

Event(ev, o) == [ev |-> ev, time |-> uniforms.time, obj |-> o]
NoWrites(fb) == [c \in Cells(fb) |-> << >>]
Identity == [k \in 1 .. NumObjects |-> k]
NoShade == [index |-> -1, fragment |-> << >>, seed |-> 0, result |-> Black]

InitMain(fb, mesh, ord, sh) ==
    /\ pc = "loop_top"
    /\ time = 0
    /\ camera = [eye |-> Vec3(10, 30, 50), center |-> Vec3(0, 0, 0), up |-> Vec3(0, 1, 0)]
    /\ uniforms = [model_matrix |-> create_model_matrix(Vec3(0, 0, 0), ScaleOne, Vec3(0, 0, 0)),
                   view_matrix |-> create_view_matrix(Vec3(0, 0, 1), Vec3(0, 0, 0), Vec3(0, 1, 0)),
                   viewport_matrix |-> create_viewport_matrix(fb.width, fb.height),
                   time |-> 0,
                   noise |-> create_noise]
    /\ framebuffer = set_background_color(fb, BackgroundColor)
    /\ vertex_arrays = mesh
    /\ order = ord
    /\ draw = 0
    /\ triangles = << >>
    /\ fragments = << >>
    /\ displayed = [count |-> 0, buffer |-> << >>]
    /\ events = << >>
    /\ writes = NoWrites(fb)
    /\ shade = sh

Init ==
    \E n \in 0 .. MaxVerts : InitMain(FramebufferNew(FbWidth, FbHeight), Mesh(n), Identity, NoShade)

\* while window.is_open() { if Escape { break } ... } : the loop ends
Exit ==
    /\ pc = "loop_top"
    /\ pc' = "done"
    /\ UNCHANGED <<time, camera, uniforms, framebuffer, vertex_arrays, order, draw,
                   triangles, fragments, displayed, events, writes, shade>>

\* the loop body up to the first render call
FrameStart ==
    /\ pc = "loop_top"
    /\ time < MaxFrames
    /\ \E key \in Keys :
         /\ time' = NextTime(time)
         /\ camera' = handle_input(camera, key)
         /\ uniforms' = [uniforms EXCEPT
                            !.model_matrix = ObjectModelMatrix(order[1]),
                            !.view_matrix = create_view_matrix(camera'.eye, camera'.center, camera'.up),
                            !.time = time']
    /\ framebuffer' = BeforeDraw(clear(framebuffer), order[1])
    /\ draw' = 1
    /\ events' = << [ev |-> "clear", time |-> time', obj |-> 0] >>
    /\ writes' = NoWrites(framebuffer)
    /\ pc' = "render"
    /\ UNCHANGED <<vertex_arrays, order, triangles, fragments, displayed, shade>>

\* render: vertex shader stage and primitive assembly stage
RenderVertexStage ==
    /\ pc = "render"
    /\ triangles' = PrimitiveAssembly(VertexStage(vertex_arrays, uniforms))
    /\ events' = Append(events, Event("render", order[draw]))
    /\ pc' = "raster"
    /\ UNCHANGED <<time, camera, uniforms, framebuffer, vertex_arrays, order, draw,
                   fragments, displayed, writes, shade>>

\* render: rasterization stage
RenderRasterize ==
    /\ pc = "raster"
    /\ fragments' = Rasterize(triangles)
    /\ pc' = "fragments"
    /\ UNCHANGED <<time, camera, uniforms, framebuffer, vertex_arrays, order, draw,
                   triangles, displayed, events, writes, shade>>

\* render: one iteration of the fragment processing stage
FragmentStep ==
    /\ pc = "fragments"
    /\ fragments # << >>
    /\ LET fragment == Head(fragments)
           x == AsUsize(fragment.position.x)
           y == AsUsize(fragment.position.y)
       IN /\ framebuffer' = ProcessFragment(framebuffer, fragment, uniforms)
          /\ writes' = IF x < framebuffer.width /\ y < framebuffer.height
                       THEN [writes EXCEPT ![CellOf(framebuffer, x, y)] =
                               Append(@, [depth |-> fragment.depth,
                                          color |-> to_hex(fragment_shader(fragment, uniforms))])]
                       ELSE writes
    /\ fragments' = Tail(fragments)
    /\ UNCHANGED <<pc, time, camera, uniforms, vertex_arrays, order, draw, triangles,
                   displayed, events, shade>>

\* the position main continues at after the draw-th render call returns
AfterRenderEarly(d) == IF d < NumObjects - 1 THEN "render" ELSE "handoff"
AfterRender(d) == IF d < NumObjects THEN "render" ELSE "handoff"

\* render returns; main sets up the next object, or leaves the object loop
RenderReturn ==
    /\ pc = "fragments"
    /\ fragments = << >>
    /\ draw >= 1
    /\ pc' = AfterRender(draw)
    /\ IF pc' = "render"
       THEN /\ draw' = draw + 1
            /\ uniforms' = SetupUniforms(uniforms, order[draw + 1], camera, time)
            /\ framebuffer' = BeforeDraw(framebuffer, order[draw + 1])
       ELSE UNCHANGED <<draw, uniforms, framebuffer>>
    /\ triangles' = << >>
    /\ UNCHANGED <<time, camera, vertex_arrays, order, fragments, displayed, events,
                   writes, shade>>

\* window.update_with_buffer(&framebuffer.buffer, ..)
Handoff ==
    /\ pc = "handoff"
    /\ displayed' = [count |-> displayed.count + 1, buffer |-> framebuffer.buffer]
    /\ events' = Append(events, Event("handoff", 0))
    /\ pc' = "loop_top"
    /\ UNCHANGED <<time, camera, uniforms, framebuffer, vertex_arrays, order, draw,
                   triangles, fragments, writes, shade>>

Next ==
    \/ Exit
    \/ FrameStart
    \/ RenderVertexStage
    \/ RenderRasterize
    \/ FragmentStep
    \/ RenderReturn
    \/ Handoff

Spec == Init /\ [][Next]_vars

(***************************************************************************)
(* The same frame loop with the objects of the scene drawn in another      *)
(* order: the order main uses, or that order with two objects exchanged.   *)
(***************************************************************************)
Exchange(i, j) == [k \in 1 .. NumObjects |-> IF k = i THEN j ELSE IF k = j THEN i ELSE k]
Orders == {Exchange(i, j) : i, j \in 1 .. NumObjects}

InitOrder ==
    \E ord \in Orders : InitMain(FramebufferNew(FbWidth, FbHeight), Mesh(MaxVerts), ord, NoShade)

SpecOrder == InitOrder /\ [][Next]_vars

\* the framebuffer after clear() and the render calls of a frame in order ord
RECURSIVE DrawFrom(_, _, _)
DrawFrom(fb, ord, k) ==
    IF k > Len(ord) \/ fb.width < 0 THEN fb
    ELSE DrawFrom(render(BeforeDraw(fb, ord[k]),
                         [uniforms EXCEPT !.model_matrix = ObjectModelMatrix(ord[k])],
                         vertex_arrays),
                  ord, k + 1)

FrameImage(ord) == DrawFrom(clear(framebuffer), ord, 1)

(***************************************************************************)
(* The framebuffer alone: after clear(), a few colour-and-point writes as  *)
(* render issues them, with any coordinates, depths and colours.           *)
(***************************************************************************)
MaxDepth == 2
PointDepths == (0 .. MaxDepth) \cup {NaN}
PointColors == {to_hex(White), to_hex(Color(255, 0, 0))}

InitPoint == InitMain(FramebufferNew(2, 2), << >>, Identity, NoShade)

\* framebuffer.clear() of a run that then only writes points
PointClear ==
    /\ pc = "loop_top"
    /\ draw = 0
    /\ events = << >>
    /\ framebuffer' = clear(framebuffer)
    /\ events' = << [ev |-> "clear", time |-> time, obj |-> 0] >>
    /\ pc' = "point"
    /\ UNCHANGED <<time, camera, uniforms, vertex_arrays, order, draw, triangles,
                   fragments, displayed, writes, shade>>

PointWrite ==
    /\ pc = "point"
    /\ draw < MaxWrites
    /\ \E x \in 0 .. framebuffer.width, y \in 0 .. framebuffer.height,
          depth \in PointDepths, color \in PointColors :
         /\ framebuffer' = FragmentWrite(framebuffer, color, x, y, depth)
         /\ writes' = IF x < framebuffer.width /\ y < framebuffer.height
                      THEN [writes EXCEPT ![CellOf(framebuffer, x, y)] =
                              Append(@, [depth |-> depth, color |-> color])]
                      ELSE writes
    /\ draw' = draw + 1
    /\ UNCHANGED <<pc, time, camera, uniforms, vertex_arrays, order, triangles,
                   fragments, displayed, events, shade>>

NextPoint == PointClear \/ PointWrite

SpecPoint == InitPoint /\ [][NextPoint]_vars

(***************************************************************************)
(* The last two stages of render on a 10 x 10 framebuffer cleared to       *)
(* black: one white triangle, given by its screen-space vertices.          *)
(***************************************************************************)
ScreenVertex(x, y) ==
    [Vertex(Vec3(x, y, 0), Vec3(0, 0, 1), <<0, 0>>, White)
        EXCEPT !.transformed_position = Vec3(x, y, 0)]

ScreenPoints == {<<0, 0>>, <<4, 0>>, <<0, 4>>, <<4, 4>>, <<-2, 2>>, <<12, 3>>}

InitE2E ==
    \E a, b, c \in ScreenPoints :
        /\ a # b /\ b # c /\ a # c
        /\ pc = "raster"
        /\ time = 0
        /\ camera = [eye |-> Vec3(10, 30, 50), center |-> Vec3(0, 0, 0), up |-> Vec3(0, 1, 0)]
        /\ uniforms = [model_matrix |-> create_model_matrix(Vec3(0, 0, 0), ScaleOne, Vec3(0, 0, 0)),
                       view_matrix |-> create_view_matrix(Vec3(0, 0, 1), Vec3(0, 0, 0), Vec3(0, 1, 0)),
                       viewport_matrix |-> create_viewport_matrix(10, 10),
                       time |-> 0,
                       noise |-> create_noise]
        /\ framebuffer = set_current_color(clear(set_background_color(FramebufferNew(10, 10), 0)),
                                           to_hex(White))
        /\ vertex_arrays = << >>
        /\ order = Identity
        /\ draw = 0
        /\ triangles = << <<ScreenVertex(a[1], a[2]), ScreenVertex(b[1], b[2]),
                            ScreenVertex(c[1], c[2])>> >>
        /\ fragments = << >>
        /\ displayed = [count |-> 0, buffer |-> << >>]
        /\ events = << [ev |-> "clear", time |-> 0, obj |-> 0] >>
        /\ writes = NoWrites(FramebufferNew(10, 10))
        /\ shade = NoShade

NextE2E == RenderRasterize \/ FragmentStep

SpecE2E == InitE2E /\ [][NextE2E]_vars

(***************************************************************************)
(* One call of select_shader, with any body identifier, fragment and       *)
(* noise seed.                                                             *)
(***************************************************************************)
ShadePositions ==
    {Vec3(0, 0, 0), Vec3(1, 0, 0), Vec3(3, 4, 0), Vec3(12, 5, 0), Vec3(-2, 7, 3), Vec3(9, 12, 1)}
ShadeIntensities == {0, 5, NoiseOne}

InitShade ==
    \E index \in 0 .. MaxIndex, p \in ShadePositions, intensity \in ShadeIntensities,
       seed \in {create_noise, create_noise + 1} :
        InitMain(FramebufferNew(1, 1), << >>, Identity,
                 [index |-> index,
                  fragment |-> [position |-> [x |-> 0, y |-> 0], color |-> White, depth |-> 0,
                                normal |-> Vec3(0, 0, 1), intensity |-> intensity,
                                vertex_position |-> p],
                  seed |-> seed,
                  result |-> Black])

Shade ==
    /\ pc = "loop_top"
    /\ shade.index >= 0
    /\ shade' = [shade EXCEPT !.result =
                    select_shader(shade.index, shade.fragment,
                                  [uniforms EXCEPT !.noise = shade.seed])]
    /\ pc' = "shaded"
    /\ UNCHANGED <<time, camera, uniforms, framebuffer, vertex_arrays, order, draw,
                   triangles, fragments, displayed, events, writes>>

SpecShade == InitShade /\ [][Shade]_vars

(***************************************************************************)
(* One call of vertex_shader, with any input vertex and uniforms: the      *)
(* vertex is vertex_arrays[1], the returned vertex is shade.result.        *)
(***************************************************************************)
VertexPositions == {Vec3(0, 0, 0), Vec3(16, 0, 8), Vec3(-3, 7, 2)}
VertexNormals == {Vec3(0, 0, 0), Vec3(4, 0, 0), Vec3(-2, 6, 3)}

\* vertices of the mesh, vertices with other normals, and vertices that
\* already carry derived fields from an earlier call
VertexInputs ==
    {VertexAt(k) : k \in 1 .. MaxVerts}
    \cup {Vertex(p, n, <<1, 0>>, Palette[2]) : p \in VertexPositions, n \in VertexNormals}
    \cup {[Vertex(p, Vec3(0, 0, 4), <<0, 1>>, Palette[3])
              EXCEPT !.transformed_position = Vec3(7, 7, 7),
                     !.transformed_normal = Vec3(1, 2, 3)] : p \in VertexPositions}

VertexTranslations == {Vec3(0, 0, 0), Vec3(24, 0, -8), Vec3(0, 0, 50)}
VertexScales == {0, SmallScale, OrbitScale, CentralScale}

InitVertex ==
    \E v \in VertexInputs, translation \in VertexTranslations, scale \in VertexScales,
       seed \in {create_noise, create_noise + 1} :
        /\ pc = "loop_top"
        /\ time = 0
        /\ camera = [eye |-> Vec3(10, 30, 50), center |-> Vec3(0, 0, 0), up |-> Vec3(0, 1, 0)]
        /\ uniforms = [model_matrix |-> create_model_matrix(translation, scale, Vec3(0, 0, 0)),
                       view_matrix |-> create_view_matrix(Vec3(10, 30, 50), Vec3(0, 0, 0),
                                                          Vec3(0, 1, 0)),
                       viewport_matrix |-> create_viewport_matrix(FbWidth, FbHeight),
                       time |-> 0,
                       noise |-> seed]
        /\ framebuffer = set_background_color(FramebufferNew(FbWidth, FbHeight), BackgroundColor)
        /\ vertex_arrays = <<v>>
        /\ order = Identity
        /\ draw = 0
        /\ triangles = << >>
        /\ fragments = << >>
        /\ displayed = [count |-> 0, buffer |-> << >>]
        /\ events = << >>
        /\ writes = NoWrites(FramebufferNew(FbWidth, FbHeight))
        /\ shade = NoShade

\* vertex_shader(&vertex, &uniforms): both arguments are shared borrows
ShadeVertex ==
    /\ pc = "loop_top"
    /\ Len(vertex_arrays) = 1
    /\ shade' = [shade EXCEPT !.result = vertex_shader(vertex_arrays[1], uniforms)]
    /\ pc' = "vertex_shaded"
    /\ UNCHANGED <<time, camera, uniforms, framebuffer, vertex_arrays, order, draw,
                   triangles, fragments, displayed, events, writes>>

SpecVertex == InitVertex /\ [][ShadeVertex]_vars

(***************************************************************************)
(* Properties of the frame loop.                                           *)
(***************************************************************************)
InFrame == events # << >>
ValidWrites(h) == SelectSeq(h, LAMBDA w : IsValidDepth(w.depth))
MinDepth(h) == CHOOSE d \in {h[i].depth : i \in 1 .. Len(h)} : \A j \in 1 .. Len(h) : d <= h[j].depth
FirstAt(h, d) == h[CHOOSE i \in 1 .. Len(h) : h[i].depth = d /\ \A j \in 1 .. (i - 1) : h[j].depth # d]

\* C1: at any point of a frame every depth cell holds the minimum depth
\* written to it so far (the far sentinel if none) and every colour cell
\* the colour supplied with the write that brought that minimum (the
\* background colour if none).
C1_DepthBufferInvariant ==
    InFrame =>
        \A c \in Cells(framebuffer) :
            LET h == ValidWrites(writes[c])
            IN IF h = << >>
               THEN /\ framebuffer.zbuffer[c] = Far
                    /\ framebuffer.buffer[c] = framebuffer.background_color
               ELSE /\ framebuffer.zbuffer[c] = MinDepth(h)
                    /\ framebuffer.buffer[c] = FirstAt(h, MinDepth(h)).color

\* a cell written several times, the nearest write neither first nor last
C1_Witness ==
    /\ InFrame
    /\ \E c \in Cells(framebuffer) :
         /\ Len(writes[c]) >= 3
         /\ \E i \in 2 .. (Len(writes[c]) - 1) :
              /\ writes[c][i].depth = MinDepth(writes[c])
              /\ writes[c][1].depth > writes[c][i].depth
              /\ writes[c][Len(writes[c])].depth > writes[c][i].depth
              /\ writes[c][Len(writes[c])].color # writes[c][i].color
              /\ framebuffer.buffer[c] = writes[c][i].color

OutOfBounds(fb, position) ==
    position.x < 0 \/ position.x >= fb.width \/ position.y < 0 \/ position.y >= fb.height

\* C4: a fragment whose pixel coordinates lie outside the framebuffer on
\* either axis, negative coordinates included, is dropped by the fragment
\* processing stage: no colour cell and no depth cell changes.
C4_OutOfBoundsDropped ==
    [][(pc = "fragments" /\ fragments # << >>
          /\ OutOfBounds(framebuffer, Head(fragments).position))
       => (framebuffer'.buffer = framebuffer.buffer
             /\ framebuffer'.zbuffer = framebuffer.zbuffer)]_vars

EventsOf(ev) == {k \in 1 .. Len(events) : events[k].ev = ev}

\* C6: in every frame clear() comes first, the handoff happens once, after
\* the writes of every object of the frame, and nothing is written to the
\* framebuffer once the buffer has been handed over.
C6_FrameOrder ==
    /\ [](InFrame =>
            /\ EventsOf("clear") = {1}
            /\ Cardinality(EventsOf("handoff")) <= 1
            /\ (pc = "loop_top" => EventsOf("handoff") = {Len(events)})
            /\ (EventsOf("handoff") # {} =>
                  /\ EventsOf("handoff") = {Len(events)}
                  /\ fragments = << >>
                  /\ {events[k].obj : k \in EventsOf("render")} = 1 .. NumObjects
                  /\ Cardinality(EventsOf("render")) = NumObjects
                  /\ displayed.buffer = framebuffer.buffer))
    /\ [][(framebuffer' # framebuffer) =>
            (events' # << >> /\ \A k \in 1 .. Len(events') : events'[k].ev # "handoff")]_vars
    /\ [][(displayed' # displayed) =>
            (displayed'.count = displayed.count + 1 /\ pc = "handoff" /\ pc' = "loop_top")]_vars

\* a frame that was handed over after all its objects were drawn
C6_Witness ==
    /\ pc = "loop_top"
    /\ displayed.count = 2
    /\ Len(vertex_arrays) >= 6
    /\ Cardinality(EventsOf("render")) = NumObjects
    /\ \E c \in Cells(framebuffer) : Len(writes[c]) >= 2

\* C7: the time counter advances once per frame, by 1, and every render
\* call of a frame sees uniforms.time equal to that frame's counter.
C7_TimePerFrame ==
    /\ [][(time' # time) => (time' = time + 1 /\ pc = "loop_top" /\ pc' = "render")]_vars
    /\ [][(pc = "loop_top" /\ pc' = "render") => time' = time + 1]_vars
    /\ [](pc = "loop_top" => displayed.count = time)
    /\ [](\A k \in EventsOf("render") : events[k].time = time)
    /\ [](pc \in {"render", "raster", "fragments"} => uniforms.time = time)

\* the small body is drawn in the second frame and sees time 2
C7_Witness ==
    /\ pc = "fragments"
    /\ time = 2
    /\ order[draw] = Small
    /\ fragments # << >>
    /\ \E k \in EventsOf("render") : events[k].obj = Small /\ events[k].time = 2

\* the fragments of the first n triangles of a shaded vertex sequence, by index
RECURSIVE FragmentsOfTriangles(_, _)
FragmentsOfTriangles(tv, n) ==
    IF n = 0 THEN << >>
    ELSE FragmentsOfTriangles(tv, n - 1)
         \o triangle(tv[3 * (n - 1) + 1], tv[3 * (n - 1) + 2], tv[3 * (n - 1) + 3])

IsSuffix(s, t) == Len(s) <= Len(t) /\ s = SubSeq(t, Len(t) - Len(s) + 1, Len(t))

\* C8: primitive assembly turns n shaded vertices into floor(n/3) triangles,
\* triangle k made of the vertices 3k, 3k+1, 3k+2 in that order; a trailing
\* group of one or two vertices gives no triangle and no fragment.
C8_PrimitiveAssembly ==
    LET tv == VertexStage(vertex_arrays, uniforms)
        n == Len(vertex_arrays) \div 3
    IN /\ (pc \in {"raster", "fragments"} /\ draw >= 1) =>
            /\ (pc = "raster" =>
                  /\ Len(triangles) = n
                  /\ \A k \in 0 .. (n - 1) :
                       triangles[k + 1] = <<tv[3 * k + 1], tv[3 * k + 2], tv[3 * k + 3]>>)
            /\ (pc = "fragments" => IsSuffix(fragments, FragmentsOfTriangles(tv, n)))

\* seven vertices: two triangles, the seventh vertex left over
C8_Witness ==
    /\ pc = "fragments"
    /\ draw >= 1
    /\ Len(vertex_arrays) = 7
    /\ Len(triangles) = 2
    /\ Len(fragments) = Len(FragmentsOfTriangles(VertexStage(vertex_arrays, uniforms), 2))
    /\ fragments # << >>

(***************************************************************************)
(* Properties of the draw order.                                           *)
(***************************************************************************)
SameColors(fb, ref) == fb.buffer = ref.buffer

\* C2: the order in which the objects of a frame are drawn does not change
\* the final colour buffer: every pixel is the same as in main's order.
C2_OrderIndependentImage ==
    pc = "handoff" => SameColors(framebuffer, FrameImage(Identity))

\* every nearest write to the cell carried the same colour
SingleNearestColor(c) ==
    LET h == ValidWrites(writes[c])
    IN \A i, j \in 1 .. Len(h) :
          (h[i].depth = MinDepth(h) /\ h[j].depth = MinDepth(h)) => h[i].color = h[j].color

SameUpToTies(fb, ref) ==
    /\ fb.zbuffer = ref.zbuffer
    /\ \A c \in Cells(fb) : SingleNearestColor(c) => fb.buffer[c] = ref.buffer[c]

\* C2 as amended: the final depth buffer does not depend on the draw order,
\* and neither does the final colour of any pixel whose nearest writes all
\* carried one colour (at a tied nearest depth the first writer wins).
C2_OrderIndependentUpToTies ==
    pc = "handoff" => SameUpToTies(framebuffer, FrameImage(Identity))

\* two objects exchanged, a cell whose first write was later overwritten by
\* a nearer one, and the image as in main's order
C2_Witness ==
    /\ pc = "handoff"
    /\ order # Identity
    /\ \E c \in Cells(framebuffer) :
         /\ Len(writes[c]) >= 2
         /\ writes[c][1].depth > MinDepth(writes[c])
         /\ writes[c][1].color # framebuffer.buffer[c]
    /\ SameColors(framebuffer, FrameImage(Identity))

(***************************************************************************)
(* Properties of the depth-tested write.                                   *)
(***************************************************************************)
\* C3: after two writes with valid depths d1 < d2 to one in-bounds pixel of
\* a freshly cleared framebuffer the pixel holds d1 and the colour written
\* with d1, whichever of the two was issued first.
C3_NearestOfTwoWins ==
    \A c \in Cells(framebuffer) :
        (/\ pc = "point"
         /\ Len(writes[c]) = 2
         /\ IsValidDepth(writes[c][1].depth)
         /\ IsValidDepth(writes[c][2].depth)
         /\ writes[c][1].depth # writes[c][2].depth)
        => LET near == IF writes[c][1].depth < writes[c][2].depth THEN writes[c][1]
                       ELSE writes[c][2]
           IN /\ framebuffer.zbuffer[c] = near.depth
              /\ framebuffer.buffer[c] = near.color

\* the nearer write came second and replaced the colour of the first
C3_Witness ==
    /\ pc = "point"
    /\ \E c \in Cells(framebuffer) :
         /\ Len(writes[c]) = 2
         /\ IsValidDepth(writes[c][1].depth)
         /\ IsValidDepth(writes[c][2].depth)
         /\ writes[c][2].depth < writes[c][1].depth
         /\ writes[c][2].color # writes[c][1].color
         /\ framebuffer.buffer[c] = writes[c][2].color
         /\ framebuffer.zbuffer[c] = writes[c][2].depth

(***************************************************************************)
(* Properties of the shading dispatch.                                     *)
(***************************************************************************)
IsColor(c) == c.r \in 0 .. 255 /\ c.g \in 0 .. 255 /\ c.b \in 0 .. 255
ShadeUniforms == [uniforms EXCEPT !.noise = shade.seed]

\* C5: select_shader returns a colour for every body identifier, and for
\* an identifier above 8 the colour body 0, the sun, returns for the same
\* fragment and uniforms.
C5_DispatchTotal ==
    pc = "shaded" =>
        /\ IsColor(shade.result)
        /\ (shade.index > 8 =>
              shade.result = select_shader(0, shade.fragment, ShadeUniforms))

\* an identifier that names no body was shaded
C5_Witness ==
    /\ pc = "shaded"
    /\ shade.index > 8
    /\ shade.result = sun_shader
    /\ shade.result # select_shader(8, shade.fragment, ShadeUniforms)

FullyLit(fragment) == [fragment EXCEPT !.intensity = NoiseOne]

\* C9: a lit body (identifiers 1 to 7) returns its procedural colour scaled
\* by the light intensity of the fragment, black at intensity zero; the
\* emissive bodies (0 and 8) return a colour independent of the intensity.
C9_LitBodiesScaled ==
    pc = "shaded" =>
        /\ (shade.index \in 1 .. 7 =>
              /\ shade.result =
                    ColorMul(select_shader(shade.index, FullyLit(shade.fragment), ShadeUniforms),
                             shade.fragment.intensity)
              /\ (shade.fragment.intensity = 0 => shade.result = Black))
        /\ (shade.index \in {0, 8} =>
              shade.result = select_shader(shade.index, FullyLit(shade.fragment), ShadeUniforms))

(***************************************************************************)
(* Properties of the triangle drawn on the 10 x 10 framebuffer.            *)
(***************************************************************************)
CornerTriangle == <<ScreenVertex(0, 0), ScreenVertex(4, 0), ScreenVertex(0, 4)>>

OriginalAttributes == {"position", "normal", "tex_coords", "color"}
DerivedAttributes == {"transformed_position", "transformed_normal"}

\* the vertex the shader would return were there no displacement
Undisplaced(vertex, u) == vertex_shader([vertex EXCEPT !.normal = Vec3(0, 0, 0)], u)

\* C11: vertex_shader returns a vertex whose object-space position, normal,
\* texture coordinates and base colour are those of the input vertex, whatever
\* the noise displacement; the returned vertex has these four fields and the
\* two derived ones, transformed_position and transformed_normal, and nothing
\* else; the call changes neither the input vertex nor the uniforms.
C11_OriginalAttributesKept ==
    /\ [](pc = "vertex_shaded" =>
            /\ DOMAIN shade.result = OriginalAttributes \cup DerivedAttributes
            /\ \A f \in OriginalAttributes : shade.result[f] = vertex_arrays[1][f])
    /\ [][pc' = "vertex_shaded" =>
            /\ vertex_arrays' = vertex_arrays
            /\ uniforms' = uniforms]_vars

\* a shaded vertex that the noise did displace and whose normal the model
\* matrix did change: only the derived fields show it
C11_Witness ==
    /\ pc = "vertex_shaded"
    /\ shade.result.transformed_position
         # Undisplaced(vertex_arrays[1], uniforms).transformed_position
    /\ shade.result.transformed_position # vertex_arrays[1].transformed_position
    /\ shade.result.transformed_normal # vertex_arrays[1].transformed_normal
    /\ shade.result.position = vertex_arrays[1].position
    /\ shade.result.normal = vertex_arrays[1].normal

====
